---------------------------- MODULE Spec2Model ----------------------------
(***************************************************************************)
(* Grid trading position manager of quant_learning:                        *)
(* BTCGridTradingStrategy and DynamicBTCGridStrategy                       *)
(* (src/src/strategies/btc_grid_strategy.py) and GridTradingStrategyBase   *)
(* (src/strategy/grid.py).                                                 *)
(*                                                                         *)
(* Units.  Python floats are modelled by scaled integers:                  *)
(*   prices, spacings, ATR, SMA : half dollars (119000 = 59500.0 USD), so  *)
(*       that the ":.0f" formatting of a level key is a real rounding;     *)
(*   sizes, positions           : 1e-5 BTC (1000 = 0.01 BTC);              *)
(*   broker value and cash      : whole dollars;                           *)
(*   take_profit_pct            : per mille (20 = 0.02);                   *)
(*   stop_loss_pct              : per cent (15 = 0.15);                    *)
(*   martingale_factor          : tenths (12 = 1.2).                       *)
(* Comparisons against a percentage are cross-multiplied, so they are      *)
(* exact; the inputs are chosen away from the float rounding boundaries.   *)
(*                                                                         *)
(* The broker (backtrader) is outside the repository.  What the model      *)
(* takes from it: buy()/sell() return an order with a fresh ref; every     *)
(* order is notified Submitted, Accepted and then one terminal status      *)
(* before the next call of next() (market orders resolve on the following  *)
(* bar); order.executed.size is the ordered quantity and                   *)
(* order.executed.price the close of the bar that issued the order; next() *)
(* runs only once the indicators have values, so len(self.sma) > 0 there.  *)
(* held and filled are the broker's side of the account: the position it   *)
(* really holds and the orders it has executed.                            *)
(***************************************************************************)
EXTENDS Integers, Sequences, FiniteSets, TLC

VARIABLES
    params,            \* the strategy's params (btc_grid_strategy.py:15-26)
    grid_levels_dict,  \* self.grid_levels_dict: level key -> [price, size, order_ref]
    active_orders,     \* self.active_orders: the refs it holds
    total_position,    \* self.total_position
    avg_buy_price,     \* self.avg_buy_price (0 = the initial 0.0)
    initial_cash,      \* self.initial_cash (None until the first bar)
    broker_orders,     \* the broker's orders not yet at a terminal status, oldest first
    next_ref,          \* the ref the broker gives the next order
    held,              \* the broker's position: sum of executed buys minus executed sells
    filled,            \* refs of the orders the broker has executed (Completed)
    bar,               \* the bar last processed by next() and what next() did on it
    bar_count,         \* number of bars processed
    last_note,         \* the last notification handled by notify_order
    start_price,       \* GridTradingStrategyBase.start_price (None until the first bar)
    buy_levels,        \* GridTradingStrategyBase.buy_levels
    active_buys,       \* GridTradingStrategyBase.active_buys
    buys_issued,       \* number of self.buy() calls of GridTradingStrategyBase
    sells_issued,      \* number of self.sell() calls of GridTradingStrategyBase
    layer_bar          \* the bar last processed by GridTradingStrategyBase.next

layer_vars == <<start_price, buy_levels, active_buys, buys_issued, sells_issued,
                layer_bar>>

vars == <<params, grid_levels_dict, active_orders, total_position, avg_buy_price,
          initial_cash, broker_orders, next_ref, held, filled, bar, bar_count,
          last_note, start_price, buy_levels, active_buys, buys_issued,
          sells_issued, layer_bar>>

-----------------------------------------------------------------------------
(* Bounds and input sets *)

MaxBars == 2

None == 0 - 1

\* Closes, SMA values (half dollars) and ATR values offered by the data feed.
Closes == {118800, 120100, 120200}
Smas == {120000, 120401}
Atrs == {100, 600}
\* Broker value and cash in dollars.
Values == {10000, 8400}
Cashes == {500, 10000}

\* The configurations the strategy is started with.  grid_spacing 500 USD,
\* base_order_size 0.01, martingale_factor 1.2 and stop_loss_pct 0.15 are the
\* defaults; grid_levels, max_position, take_profit_pct and dynamic_grid vary.
Configs ==
    { [grid_spacing |-> 1000, grid_levels |-> 4, base_order_size |-> 1000,
       martingale_factor |-> 12, max_position |-> 50000, take_profit_pct |-> 10,
       stop_loss_pct |-> 15, dynamic_grid |-> TRUE],
      [grid_spacing |-> 1000, grid_levels |-> 4, base_order_size |-> 1000,
       martingale_factor |-> 12, max_position |-> 1200, take_profit_pct |-> 10,
       stop_loss_pct |-> 15, dynamic_grid |-> FALSE],
      [grid_spacing |-> 1000, grid_levels |-> 0, base_order_size |-> 1000,
       martingale_factor |-> 12, max_position |-> 1200, take_profit_pct |-> 10,
       stop_loss_pct |-> 15, dynamic_grid |-> FALSE] }

-----------------------------------------------------------------------------
(* Pure helpers *)

RECURSIVE Pow(_, _)
Pow(b, e) == IF e = 0 THEN 1 ELSE b * Pow(b, e - 1)

Abs(x) == IF x < 0 THEN 0 - x ELSE x

Max(a, b) == IF a >= b THEN a ELSE b

\* Python's a // 2 (floor division, also for negative a).
FloorDiv2(a) == IF a >= 0 THEN a \div 2 ELSE 0 - ((1 - a) \div 2)

\* A key that does not tell the levels of one grid apart.
LevelKeyCoarse(level) == level \div 100000

\* f"{level:.0f}": the level in whole dollars, ties to even.
LevelKey(level) ==
    LET q == level \div 2
    IN  IF level % 2 = 0 THEN q
        ELSE IF q % 2 = 0 THEN q ELSE q + 1

\* sorted(levels) of a set of distinct prices.
RECURSIVE SortedSeq(_)
SortedSeq(S) ==
    IF S = {} THEN <<>>
    ELSE LET m == CHOOSE x \in S : \A y \in S : x <= y
         IN  <<m>> \o SortedSeq(S \ {m})

\* calculate_grid_levels: the centre and spacing it uses.
grid_center(p, current_price, sma, sma_len) ==
    IF p.dynamic_grid /\ sma_len > 0 THEN sma ELSE current_price

grid_dynamic_spacing(p, atr, sma_len) ==
    IF p.dynamic_grid /\ sma_len > 0 THEN Max(p.grid_spacing, atr * 2)
    ELSE p.grid_spacing

\* A grid without a level at its centre.
grid_index_range_no_center(p) ==
    (FloorDiv2(0 - p.grid_levels) .. FloorDiv2(p.grid_levels)) \ {0}

\* range(-grid_levels // 2, grid_levels // 2 + 1)
grid_index_range(p) ==
    FloorDiv2(0 - p.grid_levels) .. FloorDiv2(p.grid_levels)

\* A grid that follows the close instead of center_price.
calculate_grid_levels_from_close(p, current_price, sma, atr, sma_len) ==
    LET dynamic_spacing == grid_dynamic_spacing(p, atr, sma_len)
        levels == { current_price + i * dynamic_spacing : i \in grid_index_range(p) }
    IN  SortedSeq({ l \in levels : l > 0 })

calculate_grid_levels(p, current_price, sma, atr, sma_len) ==
    LET center_price == grid_center(p, current_price, sma, sma_len)
        dynamic_spacing == grid_dynamic_spacing(p, atr, sma_len)
        levels == { center_price + i * dynamic_spacing : i \in grid_index_range(p) }
    IN  SortedSeq({ l \in levels : l > 0 })

calculate_order_size(p, level_index) ==
    IF level_index <= 0 THEN p.base_order_size
    ELSE (p.base_order_size * Pow(p.martingale_factor, level_index))
             \div Pow(10, level_index)

\* update_avg_buy_price with the size added on every fill, the first included.
update_avg_buy_price_adds(pos, avg, new_price, new_size) ==
    LET total_value == (avg * pos) + (new_price * new_size)
    IN  [total_position |-> pos + new_size,
         avg_buy_price |-> total_value \div (pos + new_size)]

\* update_avg_buy_price: the new [total_position, avg_buy_price].
update_avg_buy_price(pos, avg, new_price, new_size) ==
    IF pos = 0
    THEN [total_position |-> pos, avg_buy_price |-> new_price]
    ELSE LET total_value == (avg * pos) + (new_price * new_size)
         IN  [total_position |-> pos + new_size,
              avg_buy_price |-> total_value \div (pos + new_size)]

-----------------------------------------------------------------------------
(* execute_grid_orders *)

\* for level in grid_levels: if abs(level - current_price) <= grid_spacing * 2
closest_levels(p, current_price, grid_levels) ==
    SelectSeq(grid_levels, LAMBDA level : Abs(level - current_price) <= p.grid_spacing * 2)

\* An entry rule that does not look at the level's record.
buy_condition_reentry(p, current_price, level, dict, pos) ==
    /\ current_price * 1000 <= level * 1005
    /\ pos < p.max_position

\* current_price <= level * 1.005 and level_key not in grid_levels_dict
\* and total_position < max_position
buy_condition(p, current_price, level, dict, pos) ==
    /\ current_price * 1000 <= level * 1005
    /\ LevelKey(level) \notin DOMAIN dict
    /\ pos < p.max_position

\* level_key in grid_levels_dict and current_price >= level * (1 + take_profit_pct)
sell_condition(p, current_price, level, dict) ==
    /\ LevelKey(level) \in DOMAIN dict
    /\ current_price * 1000 >= level * (1000 + p.take_profit_pct)

\* max(0, len([l for l in grid_levels if l < level]) - grid_levels // 2)
size_index(p, grid_levels, level) ==
    Max(0, Cardinality({ j \in 1..Len(grid_levels) : grid_levels[j] < level })
             - FloorDiv2(p.grid_levels))

\* The cash check left out.
cash_suffices_always(cash, level, order_size) == TRUE

\* broker.getcash() >= level * order_size, cash in dollars
cash_suffices(cash, level, order_size) ==
    cash >= ((level * order_size) + 199999) \div 200000

\* self.buy(size) / self.sell(size): the order the broker creates.
new_order(ref, isbuy, size, price) ==
    [ref |-> ref, isbuy |-> isbuy, size |-> size, price |-> price, status |-> "Created"]

\* One iteration of the loop body for `level`; st is the strategy and broker
\* state the loop has produced so far.  st.intents lists the orders issued and
\* st.rejected the entries given up because the cash check failed.
grid_step(p, st, current_price, grid_levels, level, pos, cash) ==
    LET level_key == LevelKey(level) IN
    IF buy_condition(p, current_price, level, st.dict, pos)
    THEN LET order_size == calculate_order_size(p, size_index(p, grid_levels, level)) IN
         IF cash_suffices(cash, level, order_size)
         THEN [dict |-> (level_key :> [price |-> level, size |-> order_size,
                                       order_ref |-> st.ref]) @@ st.dict,
               active |-> st.active \cup {st.ref},
               orders |-> Append(st.orders,
                                 new_order(st.ref, TRUE, order_size, current_price)),
               ref |-> st.ref + 1,
               intents |-> Append(st.intents,
                                  [side |-> "BUY", size |-> order_size,
                                   key |-> level_key, price |-> level,
                                   cash |-> cash, tag |-> "grid_entry"]),
               rejected |-> st.rejected]
         ELSE [st EXCEPT !.rejected =
                   Append(st.rejected, [key |-> level_key, price |-> level,
                                        size |-> order_size, cash |-> cash])]
    ELSE IF sell_condition(p, current_price, level, st.dict)
    THEN LET sell_size == st.dict[level_key].size IN
         IF pos >= sell_size
         THEN [dict |-> [k \in DOMAIN st.dict \ {level_key} |-> st.dict[k]],
               active |-> st.active \cup {st.ref},
               orders |-> Append(st.orders,
                                 new_order(st.ref, FALSE, sell_size, current_price)),
               ref |-> st.ref + 1,
               intents |-> Append(st.intents,
                                  [side |-> "SELL", size |-> sell_size,
                                   key |-> level_key,
                                   price |-> st.dict[level_key].price,
                                   entry_ref |-> st.dict[level_key].order_ref,
                                   tag |-> "grid_exit"]),
               rejected |-> st.rejected]
         ELSE st
    ELSE st

RECURSIVE grid_loop(_, _, _, _, _, _, _, _)
grid_loop(p, st, current_price, grid_levels, closest, k, pos, cash) ==
    IF k > Len(closest) THEN st
    ELSE grid_loop(p, grid_step(p, st, current_price, grid_levels, closest[k], pos, cash),
                   current_price, grid_levels, closest, k + 1, pos, cash)

execute_grid_orders(p, st, current_price, grid_levels, pos, cash) ==
    grid_loop(p, st, current_price, grid_levels,
              closest_levels(p, current_price, grid_levels), 1, pos, cash)

-----------------------------------------------------------------------------
(* next *)

\* An initial_cash that follows the broker value of every bar.
capture_initial_cash_every_bar(init_cash, current_value) == current_value

\* if self.initial_cash is None: self.initial_cash = self.broker.getvalue()
capture_initial_cash(init_cash, current_value) ==
    IF init_cash = None THEN current_value ELSE init_cash

\* total_position > 0 and (current_value - initial_cash) / initial_cash < -stop_loss_pct
stop_loss_hit(p, pos, current_value, init_cash) ==
    /\ pos > 0
    /\ (current_value - init_cash) * 100 < 0 - (p.stop_loss_pct * init_cash)

\* GridTradingStrategyBase.__init__
NoLayerBar == [close |-> 0, low |-> 0, high |-> 0, buys |-> <<>>, sells |-> {},
               initialised |-> FALSE]

LayersInit ==
    /\ start_price = None
    /\ buy_levels = <<>>
    /\ active_buys = {}
    /\ buys_issued = 0
    /\ sells_issued = 0
    /\ layer_bar = NoLayerBar

NoBar ==
    [close |-> 0, value |-> 0, center |-> 0, spacing |-> 0,
     levels |-> <<>>, intents |-> <<>>, rejected |-> <<>>, prev_rejected |-> {},
     stopped |-> FALSE, first_ref |-> 0,
     prev_center |-> 0, prev_spacing |-> 0, pos |-> 0, held |-> 0, sma_len |-> 0,
     prev_keys |-> {}]

NoNote ==
    [ref |-> 0, isbuy |-> FALSE, size |-> 0, price |-> 0, status |-> "none",
     pos_before |-> 0, avg_before |-> 0]

Init ==
    /\ params \in Configs
    /\ grid_levels_dict = <<>>
    /\ active_orders = {}
    /\ total_position = 0
    /\ avg_buy_price = 0
    /\ initial_cash = None
    /\ broker_orders = <<>>
    /\ next_ref = 1
    /\ held = 0
    /\ filled = {}
    /\ bar = NoBar
    /\ bar_count = 0
    /\ last_note = NoNote
    /\ LayersInit

\* BTCGridTradingStrategy.next on one bar.  The broker calls it when every order
\* of the bar before has reached its terminal status.
next ==
    /\ broker_orders = <<>>
    /\ bar_count < MaxBars
    /\ \E current_price \in Closes, sma \in Smas, atr \in Atrs,
          current_value \in Values, cash \in Cashes :
         LET init_cash == capture_initial_cash(initial_cash, current_value)
             sma_len == bar_count + 1
             grid_levels == calculate_grid_levels(params, current_price, sma, atr, sma_len)
             st0 == [dict |-> grid_levels_dict, active |-> active_orders,
                     orders |-> <<>>, ref |-> next_ref, intents |-> <<>>,
                     rejected |-> <<>>]
             stopped == stop_loss_hit(params, total_position, current_value, init_cash)
             st == IF stopped
                   THEN [st0 EXCEPT
                           !.orders = <<new_order(next_ref, FALSE, total_position,
                                                  current_price)>>,
                           !.ref = next_ref + 1,
                           !.intents = <<[side |-> "SELL", size |-> total_position,
                                          key |-> None, price |-> current_price,
                                          tag |-> "liquidate"]>>]
                   ELSE execute_grid_orders(params, st0, current_price, grid_levels,
                                            total_position, cash)
         IN  /\ initial_cash' = init_cash
             /\ grid_levels_dict' = st.dict
             /\ active_orders' = st.active
             /\ broker_orders' = st.orders
             /\ next_ref' = st.ref
             /\ bar' = [close |-> current_price, value |-> current_value,
                        center |-> grid_center(params, current_price, sma, sma_len),
                        spacing |-> grid_dynamic_spacing(params, atr, sma_len),
                        levels |-> grid_levels, intents |-> st.intents,
                        rejected |-> st.rejected,
                        prev_rejected |-> { bar.rejected[j].key :
                                              j \in 1..Len(bar.rejected) },
                        stopped |-> stopped, first_ref |-> next_ref,
                        prev_center |-> bar.center, prev_spacing |-> bar.spacing,
                        pos |-> total_position, held |-> held,
                        sma_len |-> sma_len,
                        prev_keys |-> DOMAIN grid_levels_dict]
             /\ bar_count' = bar_count + 1
    /\ UNCHANGED <<params, total_position, avg_buy_price, held, filled, last_note>>
    /\ UNCHANGED layer_vars

-----------------------------------------------------------------------------
(* notify_order *)

\* The statuses a notification can carry after the order's current one.
NextStatuses(status) ==
    IF status = "Created" THEN {"Submitted"}
    ELSE IF status = "Submitted" THEN {"Accepted"}
    ELSE {"Completed", "Canceled", "Margin", "Rejected"}

\* A notification handler that forgets an order only when it is filled.
notify_order_effect_keeps_unfilled(pos, avg, active, order, status) ==
    IF status \in {"Submitted", "Accepted"}
    THEN [total_position |-> pos, avg_buy_price |-> avg, active_orders |-> active]
    ELSE IF status = "Completed"
    THEN LET acct == IF order.isbuy
                     THEN update_avg_buy_price(pos, avg, order.price, order.size)
                     ELSE [total_position |-> pos - order.size, avg_buy_price |-> avg]
         IN  [total_position |-> acct.total_position,
              avg_buy_price |-> acct.avg_buy_price,
              active_orders |-> active \ {order.ref}]
    ELSE [total_position |-> pos, avg_buy_price |-> avg, active_orders |-> active]

\* A notification handler that takes the price of a sell fill as the new
\* average.
notify_order_effect_rebooked(pos, avg, active, order, status) ==
    IF status \in {"Submitted", "Accepted"}
    THEN [total_position |-> pos, avg_buy_price |-> avg, active_orders |-> active]
    ELSE LET acct ==
               IF status = "Completed"
               THEN IF order.isbuy
                    THEN update_avg_buy_price(pos, avg, order.price, order.size)
                    ELSE [total_position |-> pos - order.size,
                          avg_buy_price |-> order.price]
               ELSE [total_position |-> pos, avg_buy_price |-> avg]
         IN  [total_position |-> acct.total_position,
              avg_buy_price |-> acct.avg_buy_price,
              active_orders |-> active \ {order.ref}]

\* notify_order(order) with order.status = status: the strategy's new
\* [total_position, avg_buy_price, active_orders].
notify_order_effect(pos, avg, active, order, status) ==
    IF status \in {"Submitted", "Accepted"}
    THEN [total_position |-> pos, avg_buy_price |-> avg, active_orders |-> active]
    ELSE LET acct ==
               IF status = "Completed"
               THEN IF order.isbuy
                    THEN update_avg_buy_price(pos, avg, order.price, order.size)
                    ELSE [total_position |-> pos - order.size, avg_buy_price |-> avg]
               ELSE [total_position |-> pos, avg_buy_price |-> avg]
         IN  [total_position |-> acct.total_position,
              avg_buy_price |-> acct.avg_buy_price,
              active_orders |-> active \ {order.ref}]

\* total_cost / self.total_position raises ZeroDivisionError when a buy fill
\* brings a negative total_position back to 0.
raises_zero_division(pos, order, status) ==
    /\ status = "Completed"
    /\ order.isbuy
    /\ pos # 0
    /\ pos + order.size = 0

\* The broker notifies the strategy of the next status of its oldest open order.
\* An exception in the handler ends the run.
notify_order ==
    /\ broker_orders # <<>>
    /\ \E status \in NextStatuses(Head(broker_orders).status) :
         LET order == Head(broker_orders)
             eff == notify_order_effect(total_position, avg_buy_price, active_orders,
                                        order, status)
             terminal == status \notin {"Submitted", "Accepted"}
         IN  /\ ~raises_zero_division(total_position, order, status)
             /\ total_position' = eff.total_position
             /\ avg_buy_price' = eff.avg_buy_price
             /\ active_orders' = eff.active_orders
             /\ broker_orders' = IF terminal THEN Tail(broker_orders)
                                 ELSE <<[order EXCEPT !.status = status]>>
                                          \o Tail(broker_orders)
             /\ held' = IF status = "Completed"
                        THEN (IF order.isbuy THEN held + order.size
                              ELSE held - order.size)
                        ELSE held
             /\ filled' = IF status = "Completed"
                          THEN filled \cup {order.ref} ELSE filled
             /\ last_note' = [ref |-> order.ref, isbuy |-> order.isbuy,
                              size |-> order.size, price |-> order.price,
                              status |-> status, pos_before |-> total_position,
                              avg_before |-> avg_buy_price]
    /\ UNCHANGED <<params, grid_levels_dict, initial_cash, next_ref, bar, bar_count>>
    /\ UNCHANGED layer_vars

Next == next \/ notify_order

Spec == Init /\ [][Next]_vars

-----------------------------------------------------------------------------
(* Grid generation on its own: calculate_grid_levels applied to any params,  *)
(* close, SMA and ATR, as next() applies it at the start of every bar.       *)

\* grid_levels values tried, odd ones included.
GridLevelCounts == {1, 4, 5}

GridConfigs == { [c EXCEPT !.grid_levels = n] : c \in Configs, n \in GridLevelCounts }

\* Data-feed values for grid generation: a low-priced instrument as well, so
\* that levels with price <= 0 are filtered out.
GridCloses == {1000, 118800, 120000, 120200}
GridSmas == {1500, 120000, 120401}
GridAtrs == {100, 600, 1200}
SmaLens == {0, 1}

\* DynamicBTCGridStrategy.params over the inherited defaults.
DynamicConfig ==
    [dynamic_grid |-> TRUE, grid_spacing |-> 600, grid_levels |-> 8,
     base_order_size |-> 1000, martingale_factor |-> 12, max_position |-> 30000,
     take_profit_pct |-> 15, stop_loss_pct |-> 15, volatility_factor |-> 2]

IsDynamicStrategy(p) == "volatility_factor" \in DOMAIN p

\* max(100, min(1000, dynamic_spacing)), in half dollars.
DynamicSpacingMin == 200
DynamicSpacingMax == 2000

Min(a, b) == IF a <= b THEN a ELSE b

\* len(self.volatility_history) after this bar's append, and the mean of its
\* last ten values.
HistoryLens == {9, 10}
Volatilities == {600, 2400}

\* DynamicBTCGridStrategy.calculate_dynamic_spacing:
\* grid_spacing * (1 + recent_volatility / current_price * volatility_factor)
calculate_dynamic_spacing(p, history_len, recent_volatility, current_price) ==
    IF history_len < 10 THEN p.grid_spacing
    ELSE Max(DynamicSpacingMin,
             Min(DynamicSpacingMax,
                 p.grid_spacing
                   + ((p.grid_spacing * recent_volatility * p.volatility_factor)
                        \div current_price)))

\* int(dynamic_spacing): whole dollars.
IntDollars(x) == 2 * (x \div 2)

\* The occupancy the grid is regenerated under: none, or the level 59500
\* bought on an earlier bar.
Occupancies ==
    { <<>>, LevelKey(119000) :> [price |-> 119000, size |-> 1000, order_ref |-> 1] }

InitGrid ==
    /\ params \in GridConfigs \cup {DynamicConfig}
    /\ grid_levels_dict \in Occupancies
    /\ active_orders = {}
    /\ total_position = 0
    /\ avg_buy_price = 0
    /\ initial_cash = None
    /\ broker_orders = <<>>
    /\ next_ref = Cardinality(DOMAIN grid_levels_dict) + 1
    /\ held = 0
    /\ filled = {}
    /\ bar = NoBar
    /\ bar_count = 0
    /\ last_note = NoNote
    /\ LayersInit

\* grid_levels, spacing = self.calculate_grid_levels(current_price)
regenerate ==
    /\ ~IsDynamicStrategy(params)
    /\ \E current_price \in GridCloses, sma \in GridSmas, atr \in GridAtrs,
          sma_len \in SmaLens :
         bar' = [NoBar EXCEPT
                   !.close = current_price,
                   !.center = grid_center(params, current_price, sma, sma_len),
                   !.spacing = grid_dynamic_spacing(params, atr, sma_len),
                   !.levels = calculate_grid_levels(params, current_price, sma, atr,
                                                    sma_len),
                   !.prev_center = bar.center,
                   !.prev_spacing = bar.spacing,
                   !.sma_len = sma_len]
    /\ bar_count' = 1
    /\ UNCHANGED <<params, grid_levels_dict, active_orders, total_position,
                   avg_buy_price, initial_cash, broker_orders, next_ref, held,
                   filled, last_note>>
    /\ UNCHANGED layer_vars

\* DynamicBTCGridStrategy.next: grid_spacing is replaced by
\* int(calculate_dynamic_spacing(current_price)) for the duration of the
\* inherited next(), which generates the grid.
dynamic_regenerate ==
    /\ IsDynamicStrategy(params)
    /\ \E current_price \in GridCloses, sma \in GridSmas, atr \in GridAtrs,
          sma_len \in SmaLens, history_len \in HistoryLens,
          recent_volatility \in Volatilities :
         LET dynamic_spacing == calculate_dynamic_spacing(params, history_len,
                                    recent_volatility, current_price)
             p == [params EXCEPT !.grid_spacing = IntDollars(dynamic_spacing)]
         IN  bar' = [NoBar EXCEPT
                       !.close = current_price,
                       !.center = grid_center(p, current_price, sma, sma_len),
                       !.spacing = grid_dynamic_spacing(p, atr, sma_len),
                       !.levels = calculate_grid_levels(p, current_price, sma, atr,
                                                        sma_len),
                       !.prev_center = bar.center,
                       !.prev_spacing = bar.spacing,
                       !.sma_len = sma_len]
    /\ bar_count' = 1
    /\ UNCHANGED <<params, grid_levels_dict, active_orders, total_position,
                   avg_buy_price, initial_cash, broker_orders, next_ref, held,
                   filled, last_note>>
    /\ UNCHANGED layer_vars

NextGrid == regenerate \/ dynamic_regenerate

SpecGrid == InitGrid /\ [][NextGrid]_vars

-----------------------------------------------------------------------------
(* The handlers from the middle of a run.  Two levels of an earlier grid are  *)
(* recorded, bought at 59400; the tracked position is 0 (what the buy-fill    *)
(* accounting of update_avg_buy_price leaves), or the size of one or of both  *)
(* levels (what notify_order is written to maintain).  next and notify_order  *)
(* are the actions of Spec.                                                   *)

MidRunConfig ==
    [grid_spacing |-> 1000, grid_levels |-> 4, base_order_size |-> 1000,
     martingale_factor |-> 12, max_position |-> 50000, take_profit_pct |-> 5,
     stop_loss_pct |-> 15, dynamic_grid |-> TRUE]

MidRunLevels ==
    (LevelKey(118401) :> [price |-> 118401, size |-> 1000, order_ref |-> 1])
        @@ (LevelKey(119401) :> [price |-> 119401, size |-> 1000, order_ref |-> 2])

MidRunAccounts ==
    { [total_position |-> 0, held |-> 2000, filled |-> {1, 2}],
      [total_position |-> 1000, held |-> 1000, filled |-> {2}],
      [total_position |-> 2000, held |-> 2000, filled |-> {1, 2}] }

InitMidRun ==
    /\ params = MidRunConfig
    /\ grid_levels_dict = MidRunLevels
    /\ active_orders = {}
    /\ \E a \in MidRunAccounts :
         /\ total_position = a.total_position
         /\ held = a.held
         /\ filled = a.filled
    /\ avg_buy_price = 118800
    /\ initial_cash = 10000
    /\ broker_orders = <<>>
    /\ next_ref = 3
    /\ bar = NoBar
    /\ bar_count = 1
    /\ last_note = NoNote
    /\ LayersInit

SpecMidRun == InitMidRun /\ [][Next]_vars

-----------------------------------------------------------------------------
(* GridTradingStrategyBase (src/strategy/grid.py) with GridIndicator.        *)
(* Prices are in the feed's currency units, volumes in shares.               *)

MaxLayerBars == 3

LayerConfigs ==
    { [start_price |-> None, grid_space |-> 100, volume_per_layer |-> 100,
       max_layers |-> 5],
      [start_price |-> None, grid_space |-> 100, volume_per_layer |-> 100,
       max_layers |-> 2],
      [start_price |-> 1000, grid_space |-> 100, volume_per_layer |-> 100,
       max_layers |-> 5] }

\* The bars of the feed: close, low and high, and the SMA of the indicator.
LayerBars ==
    { [close |-> 900, low |-> 850, high |-> 1000],
      [close |-> 1200, low |-> 1000, high |-> 1250],
      [close |-> 1300, low |-> 1250, high |-> 1400],
      [close |-> 1000, low |-> 850, high |-> 1400] }
LayerSmas == {1000, 1100}

InitLayers ==
    /\ params \in LayerConfigs
    /\ grid_levels_dict = <<>>
    /\ active_orders = {}
    /\ total_position = 0
    /\ avg_buy_price = 0
    /\ initial_cash = None
    /\ broker_orders = <<>>
    /\ next_ref = 1
    /\ held = 0
    /\ filled = {}
    /\ bar = NoBar
    /\ bar_count = 0
    /\ last_note = NoNote
    /\ LayersInit

\* _initialize_grid: [start_price - i * grid_space for i in range(1, max_layers + 1)]
initialize_grid(p, close) ==
    LET start == IF p.start_price = None THEN close ELSE p.start_price
    IN  [start_price |-> start,
         buy_levels |-> [i \in 1..p.max_layers |-> start - (i * p.grid_space)]]

\* GridIndicator: grid1 .. grid5 = sma + grid_space * (2, 1, 0, -1, -2)
grid_layers(p, sma) ==
    <<sma + (p.grid_space * 2), sma + (p.grid_space * 1), sma + (p.grid_space * 0),
      sma - (p.grid_space * 1), sma - (p.grid_space * 2)>>

\* A buy rule without the cap on the number of layers.
buy_layer_condition_uncapped(p, active, current_low, level) ==
    /\ current_low <= level
    /\ level \notin active

\* current_low <= level and level not in active_buys and len(active_buys) < max_layers
buy_layer_condition(p, active, current_low, level) ==
    /\ current_low <= level
    /\ level \notin active
    /\ Cardinality(active) < p.max_layers

\* _execute_buys from the k-th level on; st = [active, buys].
RECURSIVE execute_buys(_, _, _, _, _)
execute_buys(p, st, levels, k, current_low) ==
    IF k > Len(levels) THEN st
    ELSE execute_buys(p,
             IF buy_layer_condition(p, st.active, current_low, levels[k])
             THEN [active |-> st.active \cup {levels[k]},
                   buys |-> Append(st.buys, levels[k])]
             ELSE st,
             levels, k + 1, current_low)

\* _execute_sells: the levels sold and removed from active_buys.
execute_sells(p, active, current_high) ==
    { level \in active : current_high >= level + p.grid_space }

\* GridTradingStrategyBase.next on one bar.
layers_next ==
    /\ bar_count < MaxLayerBars
    /\ \E b \in LayerBars, sma \in LayerSmas :
         IF start_price = None
         THEN LET g == initialize_grid(params, b.close) IN
              /\ start_price' = g.start_price
              /\ buy_levels' = g.buy_levels
              /\ layer_bar' = [close |-> b.close, low |-> b.low, high |-> b.high,
                               buys |-> <<>>, sells |-> {}, initialised |-> TRUE]
              /\ UNCHANGED <<active_buys, buys_issued, sells_issued>>
         ELSE LET levels == grid_layers(params, sma)
                  bought == execute_buys(params, [active |-> active_buys, buys |-> <<>>],
                                         levels, 1, b.low)
                  sold == execute_sells(params, bought.active, b.high)
              IN  /\ buy_levels' = levels
                  /\ active_buys' = bought.active \ sold
                  /\ buys_issued' = buys_issued + Len(bought.buys)
                  /\ sells_issued' = sells_issued + Cardinality(sold)
                  /\ layer_bar' = [close |-> b.close, low |-> b.low, high |-> b.high,
                                   buys |-> bought.buys, sells |-> sold,
                                   initialised |-> FALSE]
                  /\ UNCHANGED start_price
    /\ bar_count' = bar_count + 1
    /\ UNCHANGED <<params, grid_levels_dict, active_orders, total_position,
                   avg_buy_price, initial_cash, broker_orders, next_ref, held,
                   filled, bar, last_note>>

NextLayers == layers_next

SpecLayers == InitLayers /\ [][NextLayers]_vars

-----------------------------------------------------------------------------
(* Properties *)

BuyIntents == SelectSeq(bar.intents, LAMBDA x : x.side = "BUY")
ExitIntents == SelectSeq(bar.intents, LAMBDA x : x.tag = "grid_exit")
Range(seq) == { seq[j] : j \in 1..Len(seq) }

\* The level keys of the grid of the bar last processed.
BarKeys == { LevelKey(l) : l \in Range(bar.levels) }

\* The drawdown of the bar last processed is below -stop_loss_pct.
BarDrawdownBreach ==
    /\ bar_count > 0
    /\ (bar.value - initial_cash) * 100 < 0 - (params.stop_loss_pct * initial_cash)

\* C1: in every reachable state the tracked total_position lies in
\* 0 .. max_position, also when several levels trigger within one bar.
C1_PositionWithinBounds ==
    /\ 0 <= total_position
    /\ total_position <= params.max_position

\* Several levels triggered within one bar and their buy fills were confirmed.
C1_Witness ==
    /\ Len(BuyIntents) >= 2
    /\ Cardinality({ r \in filled : r >= bar.first_ref }) >= 2
    /\ broker_orders = <<>>

\* C2: avg_buy_price is unset (0.0) exactly when total_position is 0.
C2_AvgUnsetIffFlat ==
    (avg_buy_price = 0) <=> (total_position = 0)

\* C3: a confirmed BUY fill of qty at p adds exactly qty to total_position and
\* makes the average (avg*pos + p*qty) / (pos + qty), for pos = 0 as well.
C3_BuyFillAddsQty ==
    (last_note.status = "Completed" /\ last_note.isbuy) =>
        /\ total_position = last_note.pos_before + last_note.size
        /\ avg_buy_price =
             ((last_note.avg_before * last_note.pos_before)
                + (last_note.price * last_note.size))
               \div (last_note.pos_before + last_note.size)

\* C4: round trip.  The BUY fill of the order now due, followed by the fill of
\* its matching full-size SELL, returns total_position to its value before the buy.
C4_RoundTrip ==
    (broker_orders # <<>> /\ Head(broker_orders).isbuy
       /\ Head(broker_orders).status = "Accepted") =>
        LET buy_order == Head(broker_orders)
            after_buy == notify_order_effect(total_position, avg_buy_price,
                                             active_orders, buy_order, "Completed")
            sell_order == new_order(next_ref, FALSE, buy_order.size, buy_order.price)
            after_sell == notify_order_effect(after_buy.total_position,
                                              after_buy.avg_buy_price,
                                              after_buy.active_orders,
                                              sell_order, "Completed")
        IN  after_sell.total_position = total_position

\* C5: risk cutoff.  On a bar whose drawdown is below -stop_loss_pct while a
\* position is held, next() emits exactly one liquidation SELL for the whole
\* position, and no BUY and no per-level SELL.
C5_RiskCutoff ==
    (BarDrawdownBreach /\ bar.held > 0) =>
        /\ Len(bar.intents) = 1
        /\ bar.intents[1].tag = "liquidate"
        /\ bar.intents[1].side = "SELL"
        /\ bar.intents[1].size = bar.held

C7_OccupiedLevelKeepsIdentity ==
    bar.prev_spacing > 0 =>
        \A i \in grid_index_range(params) :
            LET prev_key == LevelKey(bar.prev_center + (i * bar.prev_spacing))
                cur_key == LevelKey(bar.center + (i * bar.spacing))
            IN  (prev_key \in DOMAIN grid_levels_dict
                   /\ grid_levels_dict[prev_key].order_ref < bar.first_ref) =>
                    /\ cur_key \in DOMAIN grid_levels_dict
                    /\ grid_levels_dict[cur_key] = grid_levels_dict[prev_key]

\* The recorded level k was bought before the bar last processed, its buy is
\* filled, and the bar's close reached its take-profit price.
ExitDue(k) ==
    /\ k \in DOMAIN grid_levels_dict
    /\ grid_levels_dict[k].order_ref < bar.first_ref
    /\ grid_levels_dict[k].order_ref \in filled
    /\ ~bar.stopped
    /\ bar.close * 1000 >= grid_levels_dict[k].price * (1000 + params.take_profit_pct)

\* C8: an occupied level that is not part of the newly generated grid is still
\* evaluated for exit: once its take-profit price is reached it is sold, so no
\* such level stays recorded after the bar.
C8_OrphanIsExited ==
    \A k \in DOMAIN grid_levels_dict : ~(ExitDue(k) /\ k \notin BarKeys)

\* C9: exit trigger.  On a non-breach bar every filled level of the grid whose
\* take-profit price is reached is sold on that bar (so it does not stay
\* recorded), and every per-level SELL is for a level whose price was reached.
C9_ExitTrigger ==
    /\ \A k \in DOMAIN grid_levels_dict : ~(ExitDue(k) /\ k \in BarKeys)
    /\ \A j \in 1..Len(ExitIntents) :
           bar.close * 1000 >= ExitIntents[j].price * (1000 + params.take_profit_pct)

\* C10: capacity.  No BUY of size s is emitted when total_position + s exceeds
\* max_position.
C10_NoBuyBeyondCapacity ==
    \A j \in 1..Len(BuyIntents) :
        bar.pos + BuyIntents[j].size <= params.max_position

\* The keys recorded in grid_levels_dict when the bar last processed began.
PreKeys ==
    { k \in DOMAIN grid_levels_dict : grid_levels_dict[k].order_ref < bar.first_ref }
        \cup { ExitIntents[j].key : j \in 1..Len(ExitIntents) }

\* The records created by the bar last processed.
NewKeys ==
    { k \in DOMAIN grid_levels_dict : grid_levels_dict[k].order_ref >= bar.first_ref }

\* cash dollars do not pay for size at price.
CashShort(cash, price, size) == cash * 200 < ((price * size) + 999) \div 1000

\* C11: insufficient cash is a recoverable rejection.  A BUY is emitted only
\* with cash for level price * size; a level given up for cash stays Empty and
\* the bar records nothing for it; and nothing is remembered of the rejection:
\* on every bar each Empty level near the close whose buy condition holds gets
\* its BUY when the cash suffices.
C11_InsufficientCashRecoverable ==
    /\ \A j \in 1..Len(BuyIntents) :
           ~CashShort(BuyIntents[j].cash, BuyIntents[j].price, BuyIntents[j].size)
    /\ \A j \in 1..Len(bar.rejected) :
           /\ CashShort(bar.rejected[j].cash, bar.rejected[j].price, bar.rejected[j].size)
           /\ bar.rejected[j].key \notin DOMAIN grid_levels_dict
    /\ NewKeys = { BuyIntents[j].key : j \in 1..Len(BuyIntents) }
    /\ \A j \in 1..Len(bar.levels) :
           ( /\ ~bar.stopped
             /\ Abs(bar.levels[j] - bar.close) <= 2 * params.grid_spacing
             /\ bar.close * 1000 <= bar.levels[j] * 1005
             /\ LevelKey(bar.levels[j]) \notin PreKeys
             /\ bar.pos < params.max_position ) =>
               \/ \E i \in 1..Len(BuyIntents) : BuyIntents[i].key = LevelKey(bar.levels[j])
               \/ \E i \in 1..Len(bar.rejected) :
                      bar.rejected[i].key = LevelKey(bar.levels[j])

\* A level given up for cash on the bar before is bought on this bar.
C11_Witness ==
    \E j \in 1..Len(BuyIntents) : BuyIntents[j].key \in bar.prev_rejected

\* C12: a rejected or cancelled order puts its level back: the level of a
\* rejected BUY is Empty again (no record is left for the order) and
\* total_position is unchanged.
C12_RejectionReverts ==
    (last_note.status \in {"Canceled", "Margin", "Rejected"}) =>
        /\ total_position = last_note.pos_before
        /\ last_note.isbuy =>
               ~\E k \in DOMAIN grid_levels_dict :
                    grid_levels_dict[k].order_ref = last_note.ref

\* The grid index of a level of the bar's grid: level = center + index * spacing.
GridIndex(level) ==
    IF level >= bar.center THEN (level - bar.center) \div bar.spacing
    ELSE 0 - ((bar.center - level) \div bar.spacing)

\* C13: martingale sizing.  The size requested for the level of grid index i
\* is base_order_size * martingale_factor ^ max(0, i), also in a grid that has
\* lost its low-priced levels.
C13_MartingaleByGridIndex ==
    bar_count > 0 =>
        \A j \in 1..Len(bar.levels) :
            LET e == Max(0, GridIndex(bar.levels[j]))
            IN  calculate_order_size(params, size_index(params, bar.levels, bar.levels[j]))
                  = (params.base_order_size * Pow(params.martingale_factor, e))
                        \div Pow(10, e)

\* C14: grid generation.  For levels_count >= 1 the grid is, in ascending
\* order, exactly the prices center + i * spacing > 0 for i in
\* -floor(levels_count / 2) .. floor(levels_count / 2).
C14_SymmetricGrid ==
    (bar_count > 0 /\ params.grid_levels >= 1) =>
        /\ Range(bar.levels) =
             { l \in { bar.center + (i * bar.spacing) :
                         i \in (0 - (params.grid_levels \div 2))
                                 .. (params.grid_levels \div 2) } : l > 0 }
        /\ \A j \in 1..(Len(bar.levels) - 1) : bar.levels[j] < bar.levels[j + 1]

\* The grid of the example: four configured levels around 60000, 500 apart.
ExampleGrid ==
    /\ bar_count > 0
    /\ params.grid_levels = 4
    /\ bar.center = 120000
    /\ bar.spacing = 1000

\* C15 as stated: with center 60000, spacing 500 and levels_count 4 the grid
\* is exactly {59000, 59500, 60500, 61000}, with no level at 60000.
C15_NoLevelAtCenter ==
    ExampleGrid => Range(bar.levels) = {118000, 119000, 121000, 122000}

\* C15, amended: with center 60000, spacing 500 and levels_count 4 the grid is
\* the five levels 59000, 59500, 60000, 60500, 61000 (indices -2 .. 2), the
\* center price included.
C15_LevelAtCenter ==
    ExampleGrid => bar.levels = <<118000, 119000, 120000, 121000, 122000>>

C15_Witness == ExampleGrid /\ Len(bar.levels) = 5

\* C16: in dynamic mode the spacing the grid is generated with lies in
\* [min_spacing, max_spacing] whatever the volatility, and the center is the
\* current close while the trend value is not yet available.
C16_DynamicSpacingClamped ==
    (bar_count > 0 /\ IsDynamicStrategy(params)) =>
        /\ DynamicSpacingMin <= bar.spacing
        /\ bar.spacing <= DynamicSpacingMax
        /\ bar.sma_len = 0 => bar.center = bar.close

\* C17: in static mode the grid is anchored at the first bar: on every later
\* bar the center is the one of the bar before and the spacing is
\* grid_spacing, so the level prices never change during the run.
C17_StaticGridFixed ==
    (~params.dynamic_grid /\ bar_count >= 2) =>
        /\ bar.center = bar.prev_center
        /\ bar.spacing = params.grid_spacing

\* C18: regenerating the grid with the center, spacing and grid_levels of the
\* regeneration before it, nothing having filled in between, yields the same
\* level prices and leaves every occupied level with its recorded price and
\* size.
C18_RegenerationIdempotent ==
    [][ (bar_count > 0 /\ bar'.center = bar.center /\ bar'.spacing = bar.spacing
           /\ filled' = filled) =>
            /\ bar'.levels = bar.levels
            /\ grid_levels_dict' = grid_levels_dict ]_vars

C18_Witness ==
    /\ bar_count > 0
    /\ bar.prev_spacing > 0
    /\ bar.center = bar.prev_center
    /\ bar.spacing = bar.prev_spacing
    /\ bar.sma_len = 0
    /\ params.dynamic_grid
    /\ grid_levels_dict # <<>>

\* C19: an engine configured with a non-positive grid_levels refuses to
\* start: it processes no bar and emits no order.
C19_InvalidConfigRejected ==
    params.grid_levels <= 0 =>
        /\ bar_count = 0
        /\ next_ref = 1
        /\ broker_orders = <<>>

\* C20: on breach the occupancy map collapses together with the liquidation:
\* once the bar that breached the loss limit with a position held is
\* processed, no level record remains.
C20_BreachClearsLevels ==
    (BarDrawdownBreach /\ bar.held > 0) => grid_levels_dict = <<>>

\* C29: in GridTradingStrategyBase the number of held layers never exceeds
\* max_layers, the BUY orders issued minus the SELL orders issued equal the
\* number of held layers, and the first bar only initialises the grid.
C29_LayersConserved ==
    /\ Cardinality(active_buys) <= params.max_layers
    /\ buys_issued - sells_issued = Cardinality(active_buys)
    /\ bar_count <= 1 => (buys_issued = 0 /\ sells_issued = 0)
    /\ bar_count = 1 => (layer_bar.initialised /\ start_price # None)

C29_Witness ==
    /\ Cardinality(active_buys) = params.max_layers
    /\ sells_issued > 0
    /\ \E k \in 1..Len(buy_levels) :
           buy_levels[k] \notin active_buys /\ layer_bar.low <= buy_levels[k]

\* C25: within one bar all entries come first, in ascending level price, and
\* the exits after them: the BUY orders of a bar are issued from the lowest
\* level to the highest.
C25_EntriesAscending ==
    \A i, j \in 1..Len(layer_bar.buys) :
        i < j => layer_bar.buys[i] < layer_bar.buys[j]

\* C21: a level only moves Empty -> Pending -> Filled -> PendingExit -> Empty:
\* a level that is occupied has its BUY either still open or filled, and a
\* SELL is issued for a level only when its BUY has been filled.
C21_LevelLifecycle ==
    /\ \A k \in DOMAIN grid_levels_dict :
           \/ grid_levels_dict[k].order_ref \in active_orders
           \/ grid_levels_dict[k].order_ref \in filled
    /\ \A j \in 1..Len(ExitIntents) : ExitIntents[j].entry_ref \in filled

\* C22: entry rule.  A BUY is issued only for a level without a record and
\* with close <= level * 1.005; the level is then recorded with the requested
\* size, and no two BUYs of a bar are for the same level.
C22_EntryRule ==
    /\ \A j \in 1..Len(BuyIntents) :
           /\ BuyIntents[j].key \notin bar.prev_keys
           /\ bar.close * 1000 <= BuyIntents[j].price * 1005
           /\ BuyIntents[j].size > 0
           /\ BuyIntents[j].key \in DOMAIN grid_levels_dict
           /\ grid_levels_dict[BuyIntents[j].key].size = BuyIntents[j].size
           /\ grid_levels_dict[BuyIntents[j].key].price = BuyIntents[j].price
    /\ \A i, j \in 1..Len(BuyIntents) :
           i # j => BuyIntents[i].key # BuyIntents[j].key

C22_Witness ==
    /\ Len(BuyIntents) > 0
    /\ \E j \in 1..Len(bar.levels) :
           /\ LevelKey(bar.levels[j]) \in bar.prev_keys
           /\ Abs(bar.levels[j] - bar.close) <= 2 * params.grid_spacing
           /\ bar.close * 1000 <= bar.levels[j] * 1005

\* C24: initial_cash is captured once, from the broker value of the first
\* bar, no later step changes it, and the stop-loss test of every bar is
\* computed against it.
C24_InitialEquityOnce ==
    /\ [](bar_count > 0 =>
            bar.stopped = stop_loss_hit(params, bar.pos, bar.value, initial_cash))
    /\ [][ /\ initial_cash # None => initial_cash' = initial_cash
           /\ (initial_cash = None /\ initial_cash' # None) =>
                  (bar_count = 0 /\ initial_cash' = bar'.value) ]_vars

C24_Witness ==
    /\ bar_count = 2
    /\ initial_cash # None
    /\ bar.value # initial_cash

\* The SELL orders next() issued on the bar last processed, per-level exits
\* and liquidation.
SellIntents == SelectSeq(bar.intents, LAMBDA i : i.side = "SELL")

RECURSIVE SumSizes(_)
SumSizes(intents) ==
    IF intents = <<>> THEN 0 ELSE Head(intents).size + SumSizes(Tail(intents))

\* C23: a confirmed SELL fill of quantity qty lowers total_position by exactly
\* qty, leaves avg_buy_price as it was and changes no level record.
C23_SellFillFrame ==
    [][ (last_note' # last_note /\ last_note'.status = "Completed"
           /\ ~last_note'.isbuy) =>
            /\ total_position' = total_position - last_note'.size
            /\ avg_buy_price' = avg_buy_price
            /\ grid_levels_dict' = grid_levels_dict ]_vars

C23_Witness ==
    /\ last_note.status = "Completed"
    /\ ~last_note.isbuy
    /\ last_note.size > 0
    /\ total_position > 0
    /\ grid_levels_dict # <<>>

C28_OneOrderPerLevel ==
    \A i, j \in 1..Len(bar.intents) :
        i # j => bar.intents[i].key # bar.intents[j].key

C28_Witness ==
    /\ Len(BuyIntents) > 0
    /\ Len(ExitIntents) > 0

RECURSIVE RecordedSize(_, _)
RecordedSize(dict, keys) ==
    IF keys = {} THEN 0
    ELSE LET k == CHOOSE x \in keys : TRUE
         IN  dict[k].size + RecordedSize(dict, keys \ {k})

\* C26: conservation between ledger and levels.  Whenever every order issued
\* so far is filled, total_position is the sum of the recorded sizes of the
\* occupied levels.
C26_LedgerMatchesLevels ==
    (broker_orders = <<>> /\ \A r \in 1..(next_ref - 1) : r \in filled) =>
        total_position = RecordedSize(grid_levels_dict, DOMAIN grid_levels_dict)

\* C30: active_orders holds exactly the issued orders that have not reached a
\* terminal status; once every order has, it is empty.
C30_ActiveOrdersAreOpenOrders ==
    /\ active_orders = { broker_orders[j].ref : j \in 1..Len(broker_orders) }
    /\ broker_orders = <<>> => active_orders = {}

C30_Witness ==
    /\ next_ref > 2
    /\ broker_orders = <<>>
    /\ last_note.status \in {"Canceled", "Margin", "Rejected"}
    /\ \E r \in 1..(next_ref - 1) : r \in filled

=============================================================================
